---- MODULE Spec2Model ----
(***************************************************************************)
(* Model of Firmware/sub/Controller/Controller.cpp (UavBot): the           *)
(* quadrotor force controller with its operations init(), update(),        *)
(* reset() and get_f_props().                                              *)
(*                                                                         *)
(* Arithmetic.  The code computes in float; the model computes exactly,    *)
(* on integer grids:                                                       *)
(*   - accelerations in units of gravity/20 (so gravity = 20);             *)
(*   - forces in units U_f with mass = 4/5 U_f per acceleration unit;      *)
(*   - torques as integers, one unit giving D_bar_ang[i][j]/100 U_f;       *)
(*   - the allocation matrices scaled by 100 and rounded to two decimals   *)
(*     (2.688172 -> 269, 4.545455 -> 455, 0.25 -> 25), so f_ang, f_lin     *)
(*     and f_props are in U_f/100;                                         *)
(*   - quaternions scaled by 2, over the 24 Hurwitz units, whose products  *)
(*     and vector rotations are exact;                                     *)
(*   - ratios (p, p_min, f_props) as pairs <<numerator, denominator>>      *)
(*     with a positive denominator, compared by cross-multiplication.      *)
(* Float rounding, NaN and infinity are outside the model, except that a   *)
(* quotient with a zero divisor is kept as such (denominator 0) and        *)
(* compares false with everything, as IEEE inf / NaN do in `p < 1.0f`.     *)
(***************************************************************************)
EXTENDS Integers, Sequences, FiniteSets, TLC

VARIABLES
    f_prop_min, f_prop_max,     \* Props::f_prop_min, Props::f_prop_max
    x_hat, y_hat, z_hat,        \* basis vectors
    D_bar_ang, D_bar_lin,       \* allocation matrices (x 100)
    f_props,                    \* prop forces, 4 ratios in U_f/100
    quat_sat,                   \* quaternion PID saturation flag
    init_complete,              \* init flag
    quat_x_pid, quat_y_pid, quat_z_pid, acc_z_pid,   \* PID objects
    call,                       \* the last operation called and, for update(), its locals
    periods,                    \* control periods run since construction or reset()
    fresh                       \* reference controller: constructed when the
                                \* controller was last constructed or reset, and
                                \* fed the same inputs since

vars == <<f_prop_min, f_prop_max, x_hat, y_hat, z_hat, D_bar_ang, D_bar_lin,
          f_props, quat_sat, init_complete,
          quat_x_pid, quat_y_pid, quat_z_pid, acc_z_pid, call, periods, fresh>>

----------------------------------------------------------------------------
(* Bounds of the model *)

\* update() runs at most MaxPeriods times between two calls of reset()
MaxPeriods == 3

----------------------------------------------------------------------------
(* Vectors, matrices, quaternions, ratios (the Vector/Matrix/Quat library) *)

Vec3(a, b, c) == <<a, b, c>>
Zero3 == <<0, 0, 0>>
Zero4Ratio == <<(<<0, 1>>), (<<0, 1>>), (<<0, 1>>), (<<0, 1>>)>>

Quat(w, x, y, z) == [w |-> w, x |-> x, y |-> y, z |-> z]
QNeg(q) == Quat(-q.w, -q.x, -q.y, -q.z)
\* inverse of a unit quaternion
QInv(q) == Quat(q.w, -q.x, -q.y, -q.z)
\* Hamilton product of two quaternions scaled by 2, result scaled by 2
QMul(a, b) ==
    Quat((a.w*b.w - a.x*b.x - a.y*b.y - a.z*b.z) \div 2,
         (a.w*b.x + a.x*b.w + a.y*b.z - a.z*b.y) \div 2,
         (a.w*b.y - a.x*b.z + a.y*b.w + a.z*b.x) \div 2,
         (a.w*b.z + a.x*b.y - a.y*b.x + a.z*b.w) \div 2)
\* q * v: the vector v rotated by the unit quaternion q (q scaled by 2)
QRot(q, v) ==
    LET p == Quat(0, v[1], v[2], v[3])
        a == Quat(q.w*p.w - q.x*p.x - q.y*p.y - q.z*p.z,
                  q.w*p.x + q.x*p.w + q.y*p.z - q.z*p.y,
                  q.w*p.y - q.x*p.z + q.y*p.w + q.z*p.x,
                  q.w*p.z + q.x*p.y - q.y*p.x + q.z*p.w)
        c == QInv(q)
    IN  <<(a.w*c.x + a.x*c.w + a.y*c.z - a.z*c.y) \div 4,
          (a.w*c.y - a.x*c.z + a.y*c.w + a.z*c.x) \div 4,
          (a.w*c.z + a.x*c.y - a.y*c.x + a.z*c.w) \div 4>>

\* cos and sin of an angle given in quarter turns
CosQ(n) == CASE n % 4 = 0 -> 1 [] n % 4 = 2 -> -1 [] OTHER -> 0
SinQ(n) == CASE n % 4 = 1 -> 1 [] n % 4 = 3 -> -1 [] OTHER -> 0
\* Quat(axis, angle): angle in quarter turns, even, so that the half angle is
\* a whole number of quarter turns
QuatAxisAngle(axis, angle) ==
    LET h == angle \div 2
    IN  Quat(2 * CosQ(h), 2 * SinQ(h) * axis[1], 2 * SinQ(h) * axis[2],
             2 * SinQ(h) * axis[3])

clamp(v, lo, hi) == IF v < lo THEN lo ELSE IF v > hi THEN hi ELSE v
sqa(v) == v * v
\* floor of the square root, by bisection: lo * lo <= n < hi * hi
RECURSIVE SqrtBetween(_, _, _)
SqrtBetween(n, lo, hi) ==
    IF hi - lo <= 1 THEN lo
    ELSE LET mid == (lo + hi) \div 2
         IN  IF mid * mid <= n THEN SqrtBetween(n, mid, hi)
             ELSE SqrtBetween(n, lo, mid)
sqrtf(n) == SqrtBetween(n, 0, n + 1)

MatVec3(M, v) == [i \in 1..4 |-> M[i][1]*v[1] + M[i][2]*v[2] + M[i][3]*v[3]]
MatVec1(M, s) == [i \in 1..4 |-> M[i][1] * s]

\* ratios <<n, d>> with d > 0; d = 0 is a quotient by zero (inf or NaN)
RatLess(a, b) == a[2] > 0 /\ b[2] > 0 /\ a[1] * b[2] < b[1] * a[2]
RatPos(a) == a[2] > 0 /\ a[1] > 0
One == <<1, 1>>
\* n / d as a ratio with a positive denominator (d = 0: division by zero)
Ratio(n, d) == IF d < 0 THEN <<-n, -d>> ELSE <<n, d>>

----------------------------------------------------------------------------
(* Namespace definitions: constants *)

gravity == 20               \* 9.807 m/s^2, the acceleration unit being gravity/20
mass == <<4, 5>>            \* 0.546 kg = 4/5 force unit per acceleration unit
f_ctrl == 50                \* control frequency [Hz]
f_rat_min == 10             \* min prop thrust ratio 0.10, in percent
f_rat_max == 90             \* max prop thrust ratio 0.90, in percent
pole_az == -8               \* accel z-axis pole [1/s]
HUGE_VALF == 1000000        \* stands for +infinity: above every value the model reaches

\* Derived constants (functions of Props::f_prop_max)
acc_max == (4 * f_prop_max * mass[2]) \div mass[1]
acc_mag_min == (acc_max * f_rat_min) \div 100
acc_mag_max == (acc_max * f_rat_max) \div 100
acc_mag_max_sq == sqa(acc_mag_max)
f_lin_min == (4 * f_prop_max * f_rat_min) \div 100
f_lin_max == (4 * f_prop_max * f_rat_max) \div 100

\* Gains of the three quaternion PIDs.  All are positive (the poles are negative);
\* their magnitudes are normalised to one torque unit per half unit of error.
quat_x_cfg == [kp |-> <<1, 1>>, ki |-> <<1, 1>>, kd |-> <<1, 1>>,
               u_min |-> -HUGE_VALF, u_max |-> HUGE_VALF]
quat_y_cfg == [kp |-> <<1, 1>>, ki |-> <<1, 1>>, kd |-> <<1, 1>>,
               u_min |-> -HUGE_VALF, u_max |-> HUGE_VALF]
quat_z_cfg == [kp |-> <<1, 1>>, ki |-> <<1, 1>>, kd |-> <<1, 1>>,
               u_min |-> -HUGE_VALF, u_max |-> HUGE_VALF]
\* Accel z-axis PID: az_kp = 0, az_kd = 0, az_ki = -mass * pole_az; the gain per
\* control period is az_ki / f_ctrl
az_ki == <<-mass[1] * pole_az, mass[2]>>
acc_z_cfg == [kp |-> <<0, 1>>, ki |-> <<az_ki[1], az_ki[2] * f_ctrl>>, kd |-> <<0, 1>>,
              u_min |-> f_lin_min, u_max |-> f_lin_max]

----------------------------------------------------------------------------
(* The PID class (library PID.h), from its contract:                       *)
(* update(error, setpoint, saturated hint) -> output, reset().             *)

\* a PID as constructed, and after reset()
PIDReset == [u_i |-> 0, err_prev |-> 0]
\* gain <<n, d>> (n >= 0, d > 0) times v, truncated towards zero to the grid
Gain(g, v) == IF v < 0 THEN -((g[1] * (-v)) \div g[2]) ELSE (g[1] * v) \div g[2]
\* update: the integral term accumulates unless the hint says saturated; the
\* output is the clamped sum of the three terms.  Returns the new PID and the output.
PIDUpdate(pid, cfg, err, sat) ==
    LET u_i == IF sat THEN pid.u_i ELSE pid.u_i + Gain(cfg.ki, err)
        u == Gain(cfg.kp, err) + u_i + Gain(cfg.kd, err - pid.err_prev)
    IN  [pid |-> [u_i |-> u_i, err_prev |-> err],
         out |-> clamp(u, cfg.u_min, cfg.u_max)]

----------------------------------------------------------------------------
(* update(): the steps of one control loop iteration *)

\* Accel command limiting: the command after gravity is added, the vertical
\* component clamped and the horizontal components scaled.  `p` is the quotient
\* norm_xy_max / norm_xy as the code forms it, before any test of norm_xy.
AccelLimit(lin_acc_cmd) ==
    LET z == clamp(lin_acc_cmd[3] + gravity, acc_mag_min, acc_mag_max)
        norm_xy == sqrtf(sqa(lin_acc_cmd[1]) + sqa(lin_acc_cmd[2]))
        norm_xy_max == sqrtf(acc_mag_max_sq - sqa(z))
        p == <<norm_xy_max, norm_xy>>
    IN  [cmd |-> IF RatLess(p, One)
                 THEN <<(lin_acc_cmd[1] * p[1]) \div p[2],
                        (lin_acc_cmd[2] * p[1]) \div p[2], z>>
                 ELSE <<lin_acc_cmd[1], lin_acc_cmd[2], z>>,
         p |-> p]

\* Orientation cmd.  With a vertical command acc_hat = (0, 0, 1), so t_x = t_y = 0
\* and q_y, q_x are built as the code builds them.  With a tilted command t_x and
\* t_y are irrational angles: the product q_y * q_x the trigonometry yields is the
\* unit quaternion `tilt` supplied with the inputs.  `divs` lists the divisors of
\* the divisions executed: norm_acc, and cosf(t_x), given by its square times
\* the square of norm_acc.
OrientationCmd(cmd, ang_z_cmd, tilt) ==
    LET q_z == QuatAxisAngle(z_hat, ang_z_cmd)
        norm_acc_sq == sqa(cmd[1]) + sqa(cmd[2]) + sqa(cmd[3])
        cos_z == CosQ(ang_z_cmd)
        sin_z == SinQ(ang_z_cmd)
        sin_tx_num == sin_z * cmd[1] - cos_z * cmd[2]
        q_yx == IF cmd[1] = 0 /\ cmd[2] = 0
                THEN QMul(QuatAxisAngle(y_hat, 0), QuatAxisAngle(x_hat, 0))
                ELSE tilt
    IN  IF norm_acc_sq > 0
        THEN [q_cmd |-> QMul(q_z, q_yx),
              divs |-> <<sqrtf(norm_acc_sq), norm_acc_sq - sqa(sin_tx_num)>>]
        ELSE [q_cmd |-> q_z, divs |-> <<>>]

\* variant of SignStep without the double-cover step
SignStepNone(ang_err) == ang_err
\* the double-cover step: if (ang_err.w < 0.0f) ang_err = -ang_err
SignStep(ang_err) == IF ang_err.w < 0 THEN QNeg(ang_err) ELSE ang_err

\* the errors fed to the three quaternion PIDs
QuatErrors(ang_err) == <<-ang_err.x, -ang_err.y, -ang_err.z>>

\* variant of SatHint that never reports saturation
SatHintNever(sat) == FALSE
\* the saturation hint handed to the quaternion PIDs: quat_sat as update() finds it
SatHint(sat) == sat

\* variant of PropScale that guards the upper bound only
PropScaleUpper(f_ang_i, f_lin_i) ==
    IF f_ang_i > 0 THEN Ratio(100 * f_prop_max - f_lin_i, f_ang_i) ELSE One
\* Force regulator, factor of prop i
PropScale(f_ang_i, f_lin_i) ==
    IF f_ang_i > 0 THEN Ratio(100 * f_prop_max - f_lin_i, f_ang_i)
    ELSE IF f_ang_i < 0 THEN Ratio(100 * f_prop_min - f_lin_i, f_ang_i)
    ELSE One

\* variant of RegStep without the test p > 0
RegStepAnySign(reg, p) ==
    IF RatLess(p, reg.p_min) THEN [p_min |-> p, quat_sat |-> TRUE] ELSE reg
\* Force regulator, body of the loop: reg = [p_min, quat_sat]
RegStep(reg, p) ==
    IF RatPos(p) /\ RatLess(p, reg.p_min)
    THEN [p_min |-> p, quat_sat |-> TRUE]
    ELSE reg

\* Force regulator, the loop over the props i .. 4
RECURSIVE RegLoop(_, _, _, _)
RegLoop(i, reg, f_ang, f_lin) ==
    IF i > 4 THEN reg
    ELSE RegLoop(i + 1, RegStep(reg, PropScale(f_ang[i], f_lin[i])), f_ang, f_lin)

\* variant of Allocate that leaves the torque forces unscaled
AllocateUnscaled(p_min, f_ang, f_lin) ==
    [i \in 1..4 |-> <<p_min[2] * f_ang[i] + p_min[2] * f_lin[i], p_min[2]>>]
\* f_props = p_min * f_ang + f_lin
Allocate(p_min, f_ang, f_lin) ==
    [i \in 1..4 |-> <<p_min[1] * f_ang[i] + p_min[2] * f_lin[i], p_min[2]>>]

\* One run of update() on the controller c = [x, y, z, az, quat_sat, f_props] with the
\* inputs in = [ang_pos, lin_acc, lin_acc_cmd, ang_z_cmd, tilt]: the new state of
\* the controller and the locals of the call.
Control(c, in) ==
    LET lim == AccelLimit(in.lin_acc_cmd)
        ori == OrientationCmd(lim.cmd, in.ang_z_cmd, in.tilt)
        ang_err_0 == QMul(QInv(ori.q_cmd), in.ang_pos)
        ang_err == SignStep(ang_err_0)
        err == QuatErrors(ang_err)
        hint == SatHint(c.quat_sat)
        rx == PIDUpdate(c.x, quat_x_cfg, err[1], hint)
        ry == PIDUpdate(c.y, quat_y_cfg, err[2], hint)
        rz == PIDUpdate(c.z, quat_z_cfg, err[3], hint)
        tau_cmd == <<rx.out, ry.out, rz.out>>
        f_ang == MatVec3(D_bar_ang, tau_cmd)
        acc_cmd_loc == QRot(QInv(in.ang_pos),
                            <<lim.cmd[1], lim.cmd[2], lim.cmd[3] - gravity>>)
        acc_z_cmd == acc_cmd_loc[3]
        ra == PIDUpdate(c.az, acc_z_cfg, acc_z_cmd - in.lin_acc[3], FALSE)
        f_lin_sca == ra.out
        f_lin == MatVec1(D_bar_lin, f_lin_sca)
        reg == RegLoop(1, [p_min |-> One, quat_sat |-> FALSE], f_ang, f_lin)
    IN  [x |-> rx.pid, y |-> ry.pid, z |-> rz.pid, az |-> ra.pid,
         quat_sat |-> reg.quat_sat,
         f_props |-> Allocate(reg.p_min, f_ang, f_lin),
         locals |-> [ang_err_0 |-> ang_err_0, ang_err |-> ang_err, err |-> err,
                     hints |-> <<hint, hint, hint>>, az_hint |-> "none",
                     tau_cmd |-> tau_cmd,
                     f_ang |-> f_ang, f_lin_sca |-> f_lin_sca, f_lin |-> f_lin,
                     p_min |-> reg.p_min,
                     divs |-> <<lim.p[2]>> \o ori.divs
                              \o [i \in 1..4 |-> PropScale(f_ang[i], f_lin[i])[2]]]]

----------------------------------------------------------------------------
(* Inputs of update(): what Imu and Bluetooth return *)

\* the pairs <<f_prop_min, f_prop_max>> the Props module may define
PropBounds == {<<0, 20>>, <<2, 20>>}

\* Imu::get_ang_pos() (unit quaternions, scaled by 2) and Imu::get_lin_acc():
\* level and at rest; rolled by half a turn and falling; a third of a turn about
\* the diagonal, given with a negative scalar component
ImuSet ==
    {[ang_pos |-> Quat(2, 0, 0, 0), lin_acc |-> <<0, 0, 0>>],
     [ang_pos |-> Quat(0, 2, 0, 0), lin_acc |-> <<0, 0, -200>>],
     [ang_pos |-> Quat(-1, 1, 1, 1), lin_acc |-> <<0, 0, 0>>]}
\* Bluetooth::get_lin_acc_cmd() and Bluetooth::get_ang_z_cmd() (in quarter
\* turns): hover; a climb beyond the envelope, yawed by half a turn; a horizontal
\* command beyond the envelope
CmdSet ==
    {[lin_acc_cmd |-> <<0, 0, 0>>, ang_z_cmd |-> 0],
     [lin_acc_cmd |-> <<0, 0, 80>>, ang_z_cmd |-> 2],
     [lin_acc_cmd |-> <<150, 0, 34>>, ang_z_cmd |-> 0]}
\* q_y * q_x of a tilted command
TiltSet == {Quat(1, 1, 1, -1)}

Inputs ==
    {[ang_pos |-> i.ang_pos, lin_acc |-> i.lin_acc, lin_acc_cmd |-> b.lin_acc_cmd,
      ang_z_cmd |-> b.ang_z_cmd, tilt |-> t] : i \in ImuSet, b \in CmdSet, t \in TiltSet}

----------------------------------------------------------------------------
(* State and operations *)

NoLocals ==
    [ang_err_0 |-> Quat(2, 0, 0, 0), ang_err |-> Quat(2, 0, 0, 0), err |-> Zero3,
     hints |-> <<FALSE, FALSE, FALSE>>, az_hint |-> "none", tau_cmd |-> Zero3,
     f_ang |-> [i \in 1..4 |-> 0], f_lin_sca |-> 0, f_lin |-> [i \in 1..4 |-> 0],
     p_min |-> One, divs |-> <<>>]

\* the record `call` after the operation op
Called(op) == [op |-> op, locals |-> NoLocals]

\* the PIDs, the flag and the forces of the controller, as Control takes them
Controller ==
    [x |-> quat_x_pid, y |-> quat_y_pid, z |-> quat_z_pid, az |-> acc_z_pid,
     quat_sat |-> quat_sat, f_props |-> f_props]

\* a controller as constructed (and initialised: init() touches none of these)
Constructed ==
    [x |-> PIDReset, y |-> PIDReset, z |-> PIDReset, az |-> PIDReset,
     quat_sat |-> FALSE, f_props |-> Zero4Ratio]

\* the state after construction (namespace definitions)
Init ==
    /\ \E b \in PropBounds : f_prop_min = b[1] /\ f_prop_max = b[2]
    /\ x_hat = Zero3 /\ y_hat = Zero3 /\ z_hat = Zero3
    /\ D_bar_ang = [i \in 1..4 |-> Zero3]
    /\ D_bar_lin = [i \in 1..4 |-> <<0>>]
    /\ f_props = Zero4Ratio
    /\ quat_sat = FALSE
    /\ init_complete = FALSE
    /\ quat_x_pid = PIDReset /\ quat_y_pid = PIDReset /\ quat_z_pid = PIDReset
    /\ acc_z_pid = PIDReset
    /\ call = Called("none")
    /\ periods = 0
    /\ fresh = [c |-> Constructed, used |-> FALSE]

\* variant of InitData with a sign error in the first row of D_bar_ang
InitDataSign ==
    [x_hat |-> <<1, 0, 0>>, y_hat |-> <<0, 1, 0>>, z_hat |-> <<0, 0, 1>>,
     D_bar_ang |-> <<(<<269, 269, 455>>), (<<-269, -269, -455>>),
                     (<<269, 269, -455>>), (<<-269, 269, 455>>)>>,
     D_bar_lin |-> <<(<<25>>), (<<25>>), (<<25>>), (<<25>>)>>,
     init_complete |-> TRUE]
\* what init() writes when init_complete is false
InitData ==
    [x_hat |-> <<1, 0, 0>>, y_hat |-> <<0, 1, 0>>, z_hat |-> <<0, 0, 1>>,
     D_bar_ang |-> <<(<<269, -269, 455>>), (<<-269, -269, -455>>),
                     (<<269, 269, -455>>), (<<-269, 269, 455>>)>>,
     D_bar_lin |-> <<(<<25>>), (<<25>>), (<<25>>), (<<25>>)>>,
     init_complete |-> TRUE]

init ==
    /\ IF ~init_complete
       THEN /\ x_hat' = InitData.x_hat
            /\ y_hat' = InitData.y_hat
            /\ z_hat' = InitData.z_hat
            /\ D_bar_ang' = InitData.D_bar_ang
            /\ D_bar_lin' = InitData.D_bar_lin
            /\ init_complete' = InitData.init_complete
       ELSE UNCHANGED <<x_hat, y_hat, z_hat, D_bar_ang, D_bar_lin, init_complete>>
    /\ call' = Called("init")
    /\ UNCHANGED <<f_prop_min, f_prop_max, f_props, quat_sat,
                   quat_x_pid, quat_y_pid, quat_z_pid, acc_z_pid, periods, fresh>>

\* the fields of a Control result that make up a controller
AsController(r) ==
    [x |-> r.x, y |-> r.y, z |-> r.z, az |-> r.az, quat_sat |-> r.quat_sat,
     f_props |-> r.f_props]

\* update() runs once init() has run (the control loop starts after set-up)
update ==
    /\ init_complete
    /\ periods < MaxPeriods
    /\ \E in \in Inputs :
       \E r \in {Control(Controller, in)} :
       \E fr \in {IF fresh.c = Controller THEN AsController(r)
                  ELSE AsController(Control(fresh.c, in))} :
              /\ quat_x_pid' = r.x /\ quat_y_pid' = r.y /\ quat_z_pid' = r.z
              /\ acc_z_pid' = r.az
              /\ quat_sat' = r.quat_sat
              /\ f_props' = r.f_props
              /\ call' = [Called("update") EXCEPT !.locals = r.locals]
              /\ fresh' = [fresh EXCEPT !.c = fr]
    /\ periods' = periods + 1
    /\ UNCHANGED <<f_prop_min, f_prop_max, x_hat, y_hat, z_hat, D_bar_ang,
                   D_bar_lin, init_complete>>

\* variants of ResetState: one keeps the integrators of the quaternion PIDs, one
\* keeps the output forces, one clears init_complete
ResetStateKeepPID ==
    [x |-> quat_x_pid, y |-> quat_y_pid, z |-> quat_z_pid, az |-> PIDReset,
     quat_sat |-> FALSE, f_props |-> Zero4Ratio,
     x_hat |-> x_hat, y_hat |-> y_hat, z_hat |-> z_hat,
     D_bar_ang |-> D_bar_ang, D_bar_lin |-> D_bar_lin,
     init_complete |-> init_complete]
ResetStateKeepForces ==
    [x |-> PIDReset, y |-> PIDReset, z |-> PIDReset, az |-> PIDReset,
     quat_sat |-> FALSE, f_props |-> f_props,
     x_hat |-> x_hat, y_hat |-> y_hat, z_hat |-> z_hat,
     D_bar_ang |-> D_bar_ang, D_bar_lin |-> D_bar_lin,
     init_complete |-> init_complete]
ResetStateReinit ==
    [x |-> PIDReset, y |-> PIDReset, z |-> PIDReset, az |-> PIDReset,
     quat_sat |-> FALSE, f_props |-> Zero4Ratio,
     x_hat |-> x_hat, y_hat |-> y_hat, z_hat |-> z_hat,
     D_bar_ang |-> D_bar_ang, D_bar_lin |-> D_bar_lin,
     init_complete |-> FALSE]
\* what reset() leaves in the controller
ResetState ==
    [x |-> PIDReset, y |-> PIDReset, z |-> PIDReset, az |-> PIDReset,
     quat_sat |-> FALSE, f_props |-> Zero4Ratio,
     x_hat |-> x_hat, y_hat |-> y_hat, z_hat |-> z_hat,
     D_bar_ang |-> D_bar_ang, D_bar_lin |-> D_bar_lin,
     init_complete |-> init_complete]

reset ==
    /\ quat_x_pid' = ResetState.x
    /\ quat_y_pid' = ResetState.y
    /\ quat_z_pid' = ResetState.z
    /\ acc_z_pid' = ResetState.az
    /\ quat_sat' = ResetState.quat_sat
    /\ f_props' = ResetState.f_props
    /\ x_hat' = ResetState.x_hat /\ y_hat' = ResetState.y_hat
    /\ z_hat' = ResetState.z_hat
    /\ D_bar_ang' = ResetState.D_bar_ang /\ D_bar_lin' = ResetState.D_bar_lin
    /\ init_complete' = ResetState.init_complete
    /\ call' = Called("reset")
    /\ periods' = 0
    /\ fresh' = [c |-> Constructed, used |-> periods > 0]
    /\ UNCHANGED <<f_prop_min, f_prop_max>>

\* get_f_props() returns f_props and changes nothing
get_f_props_ret == f_props
get_f_props == UNCHANGED vars

Next == init \/ update \/ reset \/ get_f_props

Spec == Init /\ [][Next]_vars

----------------------------------------------------------------------------
(* Properties *)

Updated == call.op = "update"
L == call.locals
\* the factor of each prop in the last update()
Factor(i) == PropScale(L.f_ang[i], L.f_lin[i])
\* f_props[i] within [lo, hi] (U_f / 100)
Within(f, lo, hi) == lo * f[2] <= f[1] /\ f[1] <= hi * f[2]
AllWithin == \A i \in 1..4 : Within(f_props[i], 100 * f_prop_min, 100 * f_prop_max)

\* C1 as claimed: after every update(), each prop force lies within
\* [f_prop_min, f_prop_max], whatever the pair of bounds f_prop_min < f_prop_max.
C1_AnyBounds == (Updated /\ f_prop_min < f_prop_max) => AllWithin

\* C1, amended: after every update(), each prop force lies within
\* [f_prop_min, f_prop_max], provided that f_prop_max > 0 and that f_prop_min is
\* below the least thrust share f_lin_min / 4 = f_rat_min * f_prop_max.
C1_Bounds ==
    (Updated /\ f_prop_max > 0 /\ 4 * f_prop_min < f_lin_min) => AllWithin
C1_Witness ==
    /\ Updated /\ f_prop_max > 0 /\ 4 * f_prop_min < f_lin_min
    /\ quat_sat
    /\ \E i \in 1..4 : f_props[i][1] = 100 * f_prop_max * f_props[i][2]
    /\ \E i \in 1..4 : L.f_ang[i] < 0

\* C2: from construction or from any reset(), the controller and a freshly
\* constructed one fed the same inputs agree, at every step, on f_props and on
\* the saturation flag.
C2_ResetDeterminism ==
    fresh.c.f_props = f_props /\ fresh.c.quat_sat = quat_sat
C2_Witness ==
    /\ fresh.used /\ Updated /\ periods >= 2
    /\ quat_sat /\ f_props # Zero4Ratio

\* C3: once init_complete is set, no step changes the allocation matrices, the
\* basis vectors or the flag.
C3_WriteOnce ==
    [][init_complete =>
          /\ init_complete'
          /\ D_bar_ang' = D_bar_ang /\ D_bar_lin' = D_bar_lin
          /\ x_hat' = x_hat /\ y_hat' = y_hat /\ z_hat' = z_hat]_vars
C3_Witness ==
    /\ call.op = "init" /\ fresh.used /\ periods > 0
    /\ D_bar_ang[1] = <<269, -269, 455>> /\ z_hat = <<0, 0, 1>>

\* C4: a step of reset() leaves the four PIDs reset, the flag false and f_props
\* zero, and changes neither init_complete nor the matrices nor the basis
\* vectors; until the next update() get_f_props() returns the zero vector.
C4_Reset ==
    /\ [][call'.op = "reset" =>
            /\ quat_x_pid' = PIDReset /\ quat_y_pid' = PIDReset
            /\ quat_z_pid' = PIDReset /\ acc_z_pid' = PIDReset
            /\ quat_sat' = FALSE
            /\ f_props' = Zero4Ratio
            /\ init_complete' = init_complete
            /\ D_bar_ang' = D_bar_ang /\ D_bar_lin' = D_bar_lin
            /\ x_hat' = x_hat /\ y_hat' = y_hat /\ z_hat' = z_hat]_vars
    /\ [](periods = 0 => get_f_props_ret = Zero4Ratio)
C4_Witness == call.op = "reset" /\ fresh.used /\ init_complete

\* the factors that lie strictly between 0 and 1
Binding == {p \in {Factor(i) : i \in 1..4} : RatPos(p) /\ RatLess(p, One)}
\* C5: after update(), p_min is the least of 1 and the factors strictly between
\* 0 and 1, so 0 < p_min <= 1, and quat_sat holds iff p_min < 1.
C5_Scale ==
    Updated =>
       /\ IF Binding = {} THEN L.p_min = One
          ELSE /\ L.p_min \in Binding
               /\ \A q \in Binding : ~RatLess(q, L.p_min)
       /\ RatPos(L.p_min) /\ ~RatLess(One, L.p_min)
       /\ quat_sat <=> RatLess(L.p_min, One)
C5_Witness ==
    /\ Updated /\ quat_sat
    /\ \E i \in 1..4 : RatLess(One, Factor(i))
    /\ \E i \in 1..4 : ~RatPos(Factor(i))

\* the bound prop i would violate, and whether its unscaled force violates it
BoundOf(i) == IF L.f_ang[i] > 0 THEN 100 * f_prop_max ELSE 100 * f_prop_min
Exceeds(i) ==
    \/ L.f_lin[i] + L.f_ang[i] > 100 * f_prop_max
    \/ L.f_lin[i] + L.f_ang[i] < 100 * f_prop_min
\* the props whose factor is the smallest
Smallest == {k \in 1..4 : \A i \in 1..4 : ~RatLess(Factor(i), Factor(k))}
ClampExact ==
    /\ RatLess(L.p_min, One)
    /\ quat_sat
    /\ \A k \in Smallest : f_props[k][1] = BoundOf(k) * f_props[k][2]

\* C6 as claimed: with every thrust share within the closed interval
\* [f_prop_min, f_prop_max] and some unscaled sum outside it, the scale is below
\* 1, the flag is set and the prop of the smallest factor ends on its bound.
C6_Closed ==
    (/\ Updated
     /\ \A i \in 1..4 : 100 * f_prop_min <= L.f_lin[i] /\ L.f_lin[i] <= 100 * f_prop_max
     /\ \E i \in 1..4 : Exceeds(i)) => ClampExact

\* C6, amended: the same with every thrust share strictly inside
\* (f_prop_min, f_prop_max).
C6_Open ==
    (/\ Updated
     /\ \A i \in 1..4 : 100 * f_prop_min < L.f_lin[i] /\ L.f_lin[i] < 100 * f_prop_max
     /\ \E i \in 1..4 : Exceeds(i)) => ClampExact
C6_Witness ==
    /\ Updated
    /\ \A i \in 1..4 : 100 * f_prop_min < L.f_lin[i] /\ L.f_lin[i] < 100 * f_prop_max
    /\ \E i \in 1..4 : Exceeds(i)
    /\ \E i \in 1..4 : ~Exceeds(i) /\ L.f_ang[i] # 0

\* C7: an error quaternion with a negative scalar component feeds the PIDs the
\* errors its negation feeds them, and the error quaternion used after the sign
\* step has a scalar component >= 0.
C7_DoubleCover ==
    Updated =>
       /\ L.ang_err_0.w < 0 => L.err = QuatErrors(SignStep(QNeg(L.ang_err_0)))
       /\ L.ang_err.w >= 0
C7_Witness == Updated /\ L.ang_err_0.w < 0 /\ L.err # Zero3

\* C8: every update() hands the three quaternion PIDs the flag the previous
\* update() left (false after construction and after reset()), and hands the
\* vertical PID no hint.
C8_OnePeriod ==
    /\ [][call'.op = "update" =>
            /\ call'.locals.hints = <<quat_sat, quat_sat, quat_sat>>
            /\ call'.locals.az_hint = "none"]_vars
    /\ [](periods = 0 => ~quat_sat)
C8_Witness == Updated /\ L.hints[1] /\ ~quat_sat /\ L.tau_cmd # Zero3

\* C9 as claimed: no division of update() has a zero divisor.
C9_NoZeroDivisor == Updated => \A k \in DOMAIN L.divs : L.divs[k] # 0

\* C10: after update() the four prop forces sum to the clamped output f_lin_sca
\* of the vertical PID, which lies within [f_lin_min, f_lin_max].
C10_Thrust ==
    Updated =>
       /\ f_props[1][1] + f_props[2][1] + f_props[3][1] + f_props[4][1]
             = 100 * L.f_lin_sca * L.p_min[2]
       /\ \A i \in 1..4 : f_props[i][2] = L.p_min[2]
       /\ f_lin_min <= L.f_lin_sca /\ L.f_lin_sca <= f_lin_max
C10_Witness ==
    /\ Updated /\ quat_sat /\ L.tau_cmd # Zero3
    /\ f_lin_min < L.f_lin_sca

====
